---- MODULE Spec2Model ----
(***************************************************************************)
(* Model of migrate_to_uv.py, the Poetry -> UV migration tool.             *)
(*                                                                         *)
(* A run is a record: the working directory (fs), the position in main()   *)
(* (pc), the parsed flags, the exit status, what was printed, and the      *)
(* outcome of every external command.  The environment supplies, at each   *)
(* step, the outcome of the external commands of that step and, inside the *)
(* try block of main() (lines 222-245), a possible fault: an exception or  *)
(* a KeyboardInterrupt raised at one of the step's file operations.        *)
(*                                                                         *)
(* `run` is the execution under study.  `twin` is a second execution of    *)
(* the same program, fed the same inputs, that starts from the same        *)
(* directory with uv.lock removed; `peers` are executions from the same     *)
(* directory on the same inputs except for the outcome of `poetry           *)
(* --version`, of `uv run pre-commit install`, or of both.  Two-run         *)
(* properties compare them with `run`.                                      *)
(***************************************************************************)
EXTENDS Integers, Sequences, FiniteSets, TLC

VARIABLES run, twin, peers

vars == <<run, twin, peers>>

----------------------------------------------------------------------------
(* Bounds *)

\* number of distinct file contents the initial directory draws from
NumContents == 2

\* number of times the tool is run in the same directory
MaxRuns == 2

----------------------------------------------------------------------------
(* The working directory *)

PYPROJECT     == "pyproject.toml"
POETRY_LOCK   == "poetry.lock"
PYPROJECT_UV  == "pyproject.uv.toml"
UV_LOCK       == "uv.lock"
PYPROJECT_BAK == "pyproject.poetry.toml"
POETRY_BAK    == "poetry.lock.bak"
VENV          == ".venv"

Paths == {PYPROJECT, POETRY_LOCK, PYPROJECT_UV, UV_LOCK, PYPROJECT_BAK,
          POETRY_BAK, VENV}

\* A directory entry.  data identifies a regular file's content; data = 0 is
\* a file that holds none of the initial contents (a partially written copy).
AbsentEntry   == [kind |-> "absent", data |-> 0]
DirEntry      == [kind |-> "dir", data |-> 0]
FileEntry(d)  == [kind |-> "file", data |-> d]
TornEntry     == FileEntry(0)

Contents == 1 .. NumContents

\* Path(p).exists()
exists(fs, p) == fs[p].kind # "absent"

\* Path(p).is_dir()
is_dir(fs, p) == fs[p].kind = "dir"

\* mutation: the arguments of the copy taken in the wrong order
copy2_reversed(fs, src, dst) == [fs EXCEPT ![src] = fs[dst]]

\* shutil.copy2(src, dst): dst becomes a regular file with src's content
copy2(fs, src, dst) == [fs EXCEPT ![dst] = fs[src]]

\* shutil.copy2 raising, or being interrupted: dst is left as it was, left
\* partially written, or completely written (the failure came afterwards)
copy2_faulted(fs, src, dst, effect) ==
  CASE effect = "unchanged" -> fs
    [] effect = "torn"      -> [fs EXCEPT ![dst] = TornEntry]
    [] OTHER                -> copy2(fs, src, dst)

\* Path.unlink(): the file is gone
unlink(fs, p) == [fs EXCEPT ![p] = AbsentEntry]

\* shutil.rmtree(): the directory and all below it are gone
rmtree(fs, p) == [fs EXCEPT ![p] = AbsentEntry]

----------------------------------------------------------------------------
(* External commands *)

UV_VERSION     == "uv --version"
POETRY_VERSION == "poetry --version"
UV_SYNC        == "uv sync --dev"
PRE_COMMIT     == "uv run pre-commit install"
PY_VERSION     == "uv run python --version"
IMPORT_CHECK   == "uv run python -c import themefinder"
PYTEST_VERSION == "uv run pytest --version"

Commands == {UV_VERSION, POETRY_VERSION, UV_SYNC, PRE_COMMIT, PY_VERSION,
             IMPORT_CHECK, PYTEST_VERSION}

\* exit status of a command: zero or not
Outcomes == {"ok", "fail"}

\* run_command(cmd, check): with check=True a non-zero exit raises
\* CalledProcessError, which is caught and turned into None; with check=False
\* the result object is returned whatever the exit status.
run_command(outcome, check) ==
  IF check /\ outcome = "fail" THEN "none" ELSE outcome

\* `not result or result.returncode != 0`
failed(result) == result = "none" \/ result = "fail"

----------------------------------------------------------------------------
(* Environment inputs of one step *)

Effects == {"unchanged", "torn", "written"}

NoFault == [kind |-> "none", at |-> 1, effect |-> "unchanged"]

\* a fault is raised at the at-th file operation of the step (after the
\* last one when the step has fewer), leaving that operation's target in
\* the state `effect`
Faults == {NoFault} \cup
          [kind : {"exception", "interrupt"}, at : 1 .. 3, effect : Effects]

\* the inputs of one step: c1, c2, c3 are the outcomes of the step's commands
\* in order, fault the fault raised in it
Input(a, b, c, f) == [c1 |-> a, c2 |-> b, c3 |-> c, fault |-> f]

----------------------------------------------------------------------------
(* Bookkeeping on a run record *)

print(r, msg)   == [r EXCEPT !.out = @ \cup {msg}]
enter(r, step)  == [r EXCEPT !.steps = Append(@, step)]
ran(r, c, res)  == [r EXCEPT !.cmd[c] = res]
goto(r, next)   == [r EXCEPT !.pc = next]

\* sys.exit(status)
sys_exit(r, status) == [r EXCEPT !.pc = "exited", !.code = status]

\* what a step function hands back to main(): the exception it raised (or
\* "none"), its return value, and the run after its effects
Result(k, v, r) == [raised |-> k, ret |-> v, r |-> r]

----------------------------------------------------------------------------
(* The step functions *)

\* check_prerequisites(): in.c1 is the outcome of `uv --version`, in.c2 of
\* `poetry --version`
check_prerequisites(r, in) ==
  IF ~exists(r.fs, PYPROJECT)
  THEN Result("none", FALSE, print(r, "no pyproject.toml found"))
  ELSE LET uv_result == run_command(in.c1, FALSE)
           r1 == ran(r, UV_VERSION, in.c1)
       IN IF failed(uv_result)
          THEN Result("none", FALSE, print(r1, "uv not found"))
          ELSE LET poetry_result == run_command(in.c2, FALSE)
                   r2 == ran(print(r1, "uv found"), POETRY_VERSION, in.c2)
               IN Result("none", TRUE,
                         IF ~failed(poetry_result)
                         THEN print(r2, "poetry found")
                         ELSE print(r2, "poetry not found"))

\* mutation: the loop body tests for the original but makes no copy
backup_one_no_copy(fs, original, backup, k, fault) == fs

\* one iteration of the loop of backup_existing_files(): the k-th pair
backup_one(fs, original, backup, k, fault) ==
  IF fault.kind # "none" /\ fault.at < k THEN fs
  ELSE IF ~exists(fs, original) THEN fs
  ELSE IF fault.kind # "none" /\ fault.at = k
       THEN copy2_faulted(fs, original, backup, fault.effect)
       ELSE copy2(fs, original, backup)

\* backup_existing_files()
backup_existing_files(r, in) ==
  LET fs1 == backup_one(r.fs, PYPROJECT, PYPROJECT_BAK, 1, in.fault)
      fs2 == backup_one(fs1, POETRY_LOCK, POETRY_BAK, 2, in.fault)
      r1  == [r EXCEPT !.fs = fs2]
  IN IF in.fault.kind # "none"
     THEN Result(in.fault.kind, FALSE, r1)
     ELSE Result("none", TRUE, print(r1, "backups created"))

\* setup_uv_configuration()
setup_uv_configuration(r, in) ==
  IF exists(r.fs, PYPROJECT_UV)
  THEN IF in.fault.kind # "none"
       THEN Result(in.fault.kind, FALSE,
                   [r EXCEPT !.fs =
                      IF in.fault.at = 1
                      THEN copy2_faulted(@, PYPROJECT_UV, PYPROJECT,
                                         in.fault.effect)
                      ELSE copy2(@, PYPROJECT_UV, PYPROJECT)])
       ELSE Result("none", TRUE,
                   [r EXCEPT !.fs = copy2(@, PYPROJECT_UV, PYPROJECT)])
  ELSE IF in.fault.kind # "none"
       THEN Result(in.fault.kind, FALSE, r)
       ELSE Result("none", FALSE, print(r, "pyproject.uv.toml not found"))

\* install_dependencies(): in.c1 is the outcome of `uv sync --dev`
install_dependencies(r, in) ==
  IF in.fault.kind # "none"
  THEN Result(in.fault.kind, FALSE, r)
  ELSE LET result == run_command(in.c1, TRUE)
           r1 == ran(r, UV_SYNC, in.c1)
       IN IF failed(result)
          THEN Result("none", FALSE, print(r1, "failed to install dependencies"))
          ELSE Result("none", TRUE, print(r1, "dependencies installed"))

\* setup_pre_commit(): in.c1 is the outcome of `uv run pre-commit install`
setup_pre_commit(r, in) ==
  IF in.fault.kind # "none"
  THEN Result(in.fault.kind, FALSE, r)
  ELSE LET result == run_command(in.c1, TRUE)
           r1 == ran(r, PRE_COMMIT, in.c1)
       IN IF failed(result)
          THEN Result("none", FALSE, print(r1, "failed to install pre-commit hooks"))
          ELSE Result("none", TRUE, print(r1, "pre-commit hooks installed"))

\* mutation: a failed pytest version check returns False like the two before
verify_installation_strict(r, in) ==
  LET f == in.fault
      hit(k) == f.kind # "none" /\ f.at = k
  IN
  IF hit(1) THEN Result(f.kind, FALSE, r)
  ELSE LET r1 == ran(r, PY_VERSION, in.c1)
       IN
       IF failed(run_command(in.c1, TRUE))
       THEN Result("none", FALSE, print(r1, "UV Python environment not working"))
       ELSE IF hit(2) THEN Result(f.kind, FALSE, r1)
       ELSE LET r2 == ran(r1, IMPORT_CHECK, in.c2)
            IN
            IF failed(run_command(in.c2, TRUE))
            THEN Result("none", FALSE, print(r2, "ThemeFinder import failed"))
            ELSE IF hit(3) THEN Result(f.kind, FALSE, r2)
            ELSE LET r3 == ran(r2, PYTEST_VERSION, in.c3)
                 IN IF failed(run_command(in.c3, TRUE))
                    THEN Result("none", FALSE, print(r3, "pytest not available"))
                    ELSE Result("none", TRUE, print(r3, "installation verified"))

\* verify_installation(): in.c1, in.c2, in.c3 are the outcomes of the
\* Python version check, the import check and the pytest version check; a
\* fault at the k-th command is raised only if that command is reached
verify_installation(r, in) ==
  LET f == in.fault
      hit(k) == f.kind # "none" /\ f.at = k
  IN
  IF hit(1) THEN Result(f.kind, FALSE, r)
  ELSE LET r1 == ran(r, PY_VERSION, in.c1)
       IN
       IF failed(run_command(in.c1, TRUE))
       THEN Result("none", FALSE, print(r1, "UV Python environment not working"))
       ELSE IF hit(2) THEN Result(f.kind, FALSE, r1)
       ELSE LET r2 == ran(r1, IMPORT_CHECK, in.c2)
            IN
            IF failed(run_command(in.c2, TRUE))
            THEN Result("none", FALSE, print(r2, "ThemeFinder import failed"))
            ELSE IF hit(3) THEN Result(f.kind, FALSE, r2)
            ELSE LET r3 == ran(r2, PYTEST_VERSION, in.c3)
                 IN Result("none", TRUE,
                           print(IF failed(run_command(in.c3, TRUE))
                                 THEN print(r3, "pytest not available")
                                 ELSE r3,
                                 "installation verified"))

\* mutation: only regular files are removed, a directory is left behind
remove_one_files_only(fs, p, k, fault) ==
  IF fault.kind # "none" /\ fault.at <= k THEN fs
  ELSE IF exists(fs, p) /\ ~is_dir(fs, p) THEN unlink(fs, p)
  ELSE fs

\* one iteration of the loop of cleanup_poetry_files(): the k-th path; a
\* removal that raises leaves the entry in place
remove_one(fs, p, k, fault) ==
  IF fault.kind # "none" /\ fault.at <= k THEN fs
  ELSE IF exists(fs, p)
       THEN IF is_dir(fs, p) THEN rmtree(fs, p) ELSE unlink(fs, p)
       ELSE fs

\* mutation: the list of files to remove names poetry.lock as well
cleanup_poetry_files_with_lock(r, keep_backups, in) ==
  IF ~keep_backups
  THEN LET fs1 == remove_one(r.fs, POETRY_BAK, 1, in.fault)
           fs2 == remove_one(fs1, PYPROJECT_BAK, 2, in.fault)
           fs3 == remove_one(fs2, VENV, 3, in.fault)
           fs4 == remove_one(fs3, POETRY_LOCK, 3, in.fault)
       IN Result(in.fault.kind, TRUE, [r EXCEPT !.fs = fs4])
  ELSE IF in.fault.kind # "none"
       THEN Result(in.fault.kind, TRUE, r)
       ELSE Result("none", TRUE, print(r, "keeping backup files"))

\* cleanup_poetry_files(keep_backups)
cleanup_poetry_files(r, keep_backups, in) ==
  IF ~keep_backups
  THEN LET fs1 == remove_one(r.fs, POETRY_BAK, 1, in.fault)
           fs2 == remove_one(fs1, PYPROJECT_BAK, 2, in.fault)
           fs3 == remove_one(fs2, VENV, 3, in.fault)
       IN Result(in.fault.kind, TRUE, [r EXCEPT !.fs = fs3])
  ELSE IF in.fault.kind # "none"
       THEN Result(in.fault.kind, TRUE, r)
       ELSE Result("none", TRUE, print(r, "keeping backup files"))

\* show_next_steps()
show_next_steps(r, in) ==
  IF in.fault.kind # "none"
  THEN Result(in.fault.kind, TRUE, r)
  ELSE Result("none", TRUE, print(r, "migration completed"))

----------------------------------------------------------------------------
(* main() *)

\* mutation: the Exception clause exits without the restore instructions
handler_without_instructions(r, kind) ==
  LET r1 == [r EXCEPT !.raised = kind]
  IN IF kind = "interrupt"
     THEN sys_exit(print(r1, "migration cancelled by user"), 1)
     ELSE sys_exit(print(r1, "migration failed"), 1)

\* the except clauses of main(): KeyboardInterrupt, then Exception
handler(r, kind) ==
  LET r1 == [r EXCEPT !.raised = kind]
  IN IF kind = "interrupt"
     THEN sys_exit(print(r1, "migration cancelled by user"), 1)
     ELSE sys_exit(print(print(r1, "migration failed"),
                         "restore instructions"), 1)

\* mutation: the result of check_prerequisites() is not tested
main_prereq_unchecked(r, in) ==
  goto(check_prerequisites(enter(r, "prereq"), in).r, "migrated")

\* `if not check_prerequisites(): sys.exit(1)`
main_prereq(r, in) ==
  LET res == check_prerequisites(enter(r, "prereq"), in)
  IN IF ~res.ret THEN sys_exit(res.r, 1) ELSE goto(res.r, "migrated")

\* mutation: the marker is not looked at
main_migrated_no_marker(r, in) == goto(enter(r, "migrated"), "backup")

\* mutation: --force is not looked at
main_migrated_no_force(r, in) ==
  LET r1 == enter(r, "migrated")
  IN IF exists(r1.fs, UV_LOCK)
     THEN sys_exit(print(r1, "UV configuration already exists"), 0)
     ELSE goto(r1, "backup")

\* `if Path("uv.lock").exists() and not args.force: ... sys.exit(0)`
main_migrated(r, in) ==
  LET r1 == enter(r, "migrated")
  IN IF exists(r1.fs, UV_LOCK) /\ ~r1.force
     THEN sys_exit(print(r1, "UV configuration already exists"), 0)
     ELSE goto(r1, "backup")

\* mutation: an exception from the backup is swallowed and the swap follows
main_backup_ignores_errors(r, in) ==
  LET res == backup_existing_files(enter(r, "backup"), in)
  IN IF res.raised = "interrupt" THEN handler(res.r, res.raised)
     ELSE goto(res.r, "swap")

\* mutation: the call of backup_existing_files() is missing
main_backup_missing(r, in) == goto(r, "swap")

\* `backup_existing_files()`
main_backup(r, in) ==
  LET res == backup_existing_files(enter(r, "backup"), in)
  IN IF res.raised # "none" THEN handler(res.r, res.raised)
     ELSE goto(res.r, "swap")

\* mutation: the result of setup_uv_configuration() is not tested
main_swap_unchecked(r, in) ==
  LET res == setup_uv_configuration(enter(r, "swap"), in)
  IN IF res.raised # "none" THEN handler(res.r, res.raised)
     ELSE goto(res.r, "install")

\* `if not setup_uv_configuration(): sys.exit(1)`
main_swap(r, in) ==
  LET res == setup_uv_configuration(enter(r, "swap"), in)
  IN IF res.raised # "none" THEN handler(res.r, res.raised)
     ELSE IF ~res.ret THEN sys_exit(res.r, 1)
     ELSE goto(res.r, "install")

\* mutation: the result of install_dependencies() is not tested
main_install_unchecked(r, in) ==
  LET res == install_dependencies(enter(r, "install"), in)
  IN IF res.raised # "none" THEN handler(res.r, res.raised)
     ELSE goto(res.r, "hook")

\* `if not install_dependencies(): sys.exit(1)`
main_install(r, in) ==
  LET res == install_dependencies(enter(r, "install"), in)
  IN IF res.raised # "none" THEN handler(res.r, res.raised)
     ELSE IF ~res.ret THEN sys_exit(res.r, 1)
     ELSE goto(res.r, "hook")

\* mutation: a failed hook setup exits like a failed install
main_hook_fatal(r, in) ==
  LET res == setup_pre_commit(enter(r, "hook"), in)
  IN IF res.raised # "none" THEN handler(res.r, res.raised)
     ELSE IF ~res.ret THEN sys_exit(res.r, 1)
     ELSE goto(res.r, "verify")

\* `setup_pre_commit()`: the return value is dropped
main_hook(r, in) ==
  LET res == setup_pre_commit(enter(r, "hook"), in)
  IN IF res.raised # "none" THEN handler(res.r, res.raised)
     ELSE goto(res.r, "verify")

\* mutation: a failed verification goes straight to the final report
main_verify_skips_cleanup(r, in) ==
  LET res == verify_installation(enter(r, "verify"), in)
  IN IF res.raised # "none" THEN handler(res.r, res.raised)
     ELSE IF ~res.ret
          THEN goto(print(res.r, "installation may have issues"), "report")
          ELSE goto(res.r, "cleanup")

\* mutation: a failed verification exits like a failed install
main_verify_fatal(r, in) ==
  LET res == verify_installation(enter(r, "verify"), in)
  IN IF res.raised # "none" THEN handler(res.r, res.raised)
     ELSE IF ~res.ret THEN sys_exit(res.r, 1)
     ELSE goto(res.r, "cleanup")

\* `if not verify_installation(): print(warning)`
main_verify(r, in) ==
  LET res == verify_installation(enter(r, "verify"), in)
  IN IF res.raised # "none" THEN handler(res.r, res.raised)
     ELSE IF ~res.ret
          THEN goto(print(res.r, "installation may have issues"), "cleanup")
          ELSE goto(res.r, "cleanup")

\* `cleanup_poetry_files(keep_backups=not args.cleanup)`
main_cleanup(r, in) ==
  LET res == cleanup_poetry_files(enter(r, "cleanup"), ~r.cleanup, in)
  IN IF res.raised # "none" THEN handler(res.r, res.raised)
     ELSE goto(res.r, "report")

\* `show_next_steps()`, then main() returns: exit status 0
main_report(r, in) ==
  LET res == show_next_steps(enter(r, "report"), in)
  IN IF res.raised # "none" THEN handler(res.r, res.raised)
     ELSE sys_exit(res.r, 0)

\* the step of main() a run is at
main(r, in) ==
  CASE r.pc = "prereq"   -> main_prereq(r, in)
    [] r.pc = "migrated" -> main_migrated(r, in)
    [] r.pc = "backup"   -> main_backup(r, in)
    [] r.pc = "swap"     -> main_swap(r, in)
    [] r.pc = "install"  -> main_install(r, in)
    [] r.pc = "hook"     -> main_hook(r, in)
    [] r.pc = "verify"   -> main_verify(r, in)
    [] r.pc = "cleanup"  -> main_cleanup(r, in)
    [] r.pc = "report"   -> main_report(r, in)
    [] OTHER             -> r

----------------------------------------------------------------------------
(* Initial states *)

Files == {FileEntry(d) : d \in Contents}

\* the directories a run may start in: the two configuration files absent or
\* with any content, the other entries absent or left over from earlier use
InitFs ==
  { [p \in Paths |->
       CASE p = PYPROJECT     -> e[1]
         [] p = PYPROJECT_UV  -> e[2]
         [] p = POETRY_LOCK   -> e[3]
         [] p = PYPROJECT_BAK -> e[4]
         [] p = POETRY_BAK    -> e[5]
         [] p = UV_LOCK       -> e[6]
         [] OTHER             -> e[7]] :
    e \in ({AbsentEntry} \cup Files) \X ({AbsentEntry} \cup Files)
          \X {AbsentEntry, FileEntry(1)}
          \X {AbsentEntry, FileEntry(NumContents)}
          \X {AbsentEntry, FileEntry(NumContents)}
          \X {AbsentEntry, FileEntry(1)}
          \X {AbsentEntry, FileEntry(1), DirEntry} }

\* a process that has parsed its arguments and is about to run main()'s checks
\* origin is the directory before the first run in it, nrun the number of
\* this run, faultfree whether the earlier runs ended without a fault
start(fs, force, cleanup) ==
  [fs |-> fs, fs0 |-> fs, pc |-> "prereq", code |-> 0, out |-> {},
   steps |-> <<>>, cmd |-> [c \in Commands |-> "notrun"], raised |-> "none",
   force |-> force, cleanup |-> cleanup,
   origin |-> fs, nrun |-> 1, faultfree |-> TRUE]

\* the tool started again in the directory the run r left behind
restart(r, force, cleanup) ==
  [start(r.fs, force, cleanup) EXCEPT !.origin = r.origin,
                                      !.nrun = r.nrun + 1,
                                      !.faultfree = r.faultfree
                                                    /\ r.raised = "none"]

without_uv_lock(fs) == [fs EXCEPT ![UV_LOCK] = AbsentEntry]

\* which of the two advisory commands a peer run sees end the other way
Variations == {"poetry", "hook", "both"}

other_outcome(o) == IF o = "ok" THEN "fail" ELSE "ok"

\* the inputs of the step at pc with the advisory outcome(s) `which` changed:
\* `poetry --version` is the second command of the prerequisite check,
\* `uv run pre-commit install` the command of the hook setup
advisory_varied(pc, in, which) ==
  IF pc = "prereq" /\ which \in {"poetry", "both"}
  THEN [in EXCEPT !.c2 = other_outcome(@)]
  ELSE IF pc = "hook" /\ which \in {"hook", "both"}
       THEN [in EXCEPT !.c1 = other_outcome(@)]
       ELSE in

Init ==
  \E fs \in InitFs, force \in BOOLEAN, cleanup \in BOOLEAN :
    /\ run  = start(fs, force, cleanup)
    /\ twin = start(without_uv_lock(fs), force, cleanup)
    /\ peers = [w \in Variations |-> start(fs, force, cleanup)]

----------------------------------------------------------------------------
(* Actions: one per step of main(); the twin and the peers take their own
   next step on the same inputs, the peers with their advisory outcomes
   changed *)

Step(in) ==
  /\ run'  = main(run, in)
  /\ twin' = main(twin, in)
  /\ peers' = [w \in Variations |->
                 main(peers[w], advisory_varied(peers[w].pc, in, w))]

CheckPrerequisites ==
  /\ run.pc = "prereq"
  /\ \E uv \in Outcomes, poetry \in Outcomes :
       Step(Input(uv, poetry, "ok", NoFault))

AlreadyMigratedCheck ==
  /\ run.pc = "migrated"
  /\ Step(Input("ok", "ok", "ok", NoFault))

Backup ==
  /\ run.pc = "backup"
  /\ \E f \in Faults : Step(Input("ok", "ok", "ok", f))

ConfigurationSwap ==
  /\ run.pc = "swap"
  /\ \E f \in Faults : Step(Input("ok", "ok", "ok", f))

InstallDependencies ==
  /\ run.pc = "install"
  /\ \E sync \in Outcomes, f \in Faults :
       Step(Input(sync, "ok", "ok", f))

HookSetup ==
  /\ run.pc = "hook"
  /\ \E hook \in Outcomes, f \in Faults :
       Step(Input(hook, "ok", "ok", f))

Verification ==
  /\ run.pc = "verify"
  /\ \E py \in Outcomes, imp \in Outcomes, pytest \in Outcomes, f \in Faults :
       Step(Input(py, imp, pytest, f))

Cleanup ==
  /\ run.pc = "cleanup"
  /\ \E f \in Faults : Step(Input("ok", "ok", "ok", f))

FinalReport ==
  /\ run.pc = "report"
  /\ \E f \in Faults : Step(Input("ok", "ok", "ok", f))

Next ==
  \/ CheckPrerequisites
  \/ AlreadyMigratedCheck
  \/ Backup
  \/ ConfigurationSwap
  \/ InstallDependencies
  \/ HookSetup
  \/ Verification
  \/ Cleanup
  \/ FinalReport

Spec == Init /\ [][Next]_vars

----------------------------------------------------------------------------
(* Several runs in the same directory: after the process has exited the
   tool is started again, with or without --force, never with --cleanup *)

\* a directory the tool has not been run in: no backups yet
InitRuns ==
  /\ Init
  /\ ~run.cleanup
  /\ ~exists(run.fs, PYPROJECT_BAK)
  /\ ~exists(run.fs, POETRY_BAK)

Rerun ==
  /\ run.pc = "exited"
  /\ run.nrun < MaxRuns
  /\ \E force \in BOOLEAN :
       /\ run' = restart(run, force, FALSE)
       /\ twin' = restart([run EXCEPT !.fs = without_uv_lock(@)], force, FALSE)
       /\ peers' = [w \in Variations |-> restart(run, force, FALSE)]

NextRuns ==
  \/ Next
  \/ Rerun

SpecRuns == InitRuns /\ [][NextRuns]_vars

----------------------------------------------------------------------------
(* Vocabulary of the properties *)

Last(seq) == seq[Len(seq)]

\* the step was entered during the run
Entered(r, step) == \E i \in 1 .. Len(r.steps) : r.steps[i] = step

Exited(r) == r.pc = "exited"

\* check_prerequisites() returned False: no pyproject.toml at start, or
\* `uv --version` exited non-zero
PrereqFailed(r) ==
  /\ r.pc # "prereq"
  /\ \/ ~exists(r.fs0, PYPROJECT)
     \/ r.cmd[UV_VERSION] = "fail"

PrereqPassed(r) == r.pc # "prereq" /\ ~PrereqFailed(r)

\* the run left through the already-migrated branch
TookNoOp(r) == "UV configuration already exists" \in r.out

\* the run printed the final report
Reported(r) == "migration completed" \in r.out

InstallFailed(r) == r.cmd[UV_SYNC] = "fail"

\* the swap step ran and found no pyproject.uv.toml
ConfigAbsentAtSwap(r) ==
  /\ Entered(r, "swap")
  /\ r.pc # "swap"
  /\ ~exists(r.fs, PYPROJECT_UV)

RestorePrinted(r) == "restore instructions" \in r.out

----------------------------------------------------------------------------
(* Properties *)

\* C1: whenever the prerequisite check fails (pyproject.toml absent at the
\* start, or `uv --version` exits non-zero) the process has exited with
\* status 1, the directory is exactly as it was at the start, and no step
\* other than the prerequisite check was entered.
C1_PrereqFailureExitsUntouched ==
  PrereqFailed(run) =>
    /\ Exited(run)
    /\ run.code = 1
    /\ run.fs = run.fs0
    /\ run.steps = <<"prereq">>

\* C1 witness: a run in a directory with pyproject.toml whose `uv --version`
\* failed, after the prerequisite check
C1_Witness ==
  /\ PrereqFailed(run)
  /\ exists(run.fs0, PYPROJECT)
  /\ run.cmd[UV_VERSION] = "fail"
  /\ exists(run.fs0, PYPROJECT_UV)

\* C2 as stated: every run started with uv.lock present and without --force
\* exits with status 0 and leaves the directory untouched.
C2_Original ==
  (Exited(run) /\ exists(run.fs0, UV_LOCK) /\ ~run.force) =>
    /\ run.code = 0
    /\ run.fs = run.fs0

\* C2 amended: every run started with uv.lock present and without --force
\* whose prerequisite check passes exits with status 0 at the
\* already-migrated check, with the directory exactly as it was at the start
\* and no later step entered; when the prerequisite check fails the
\* directory is untouched as well.
C2_NoOpAfterPrereq ==
  /\ (exists(run.fs0, UV_LOCK) /\ ~run.force /\ PrereqPassed(run)
        /\ run.pc # "migrated") =>
       /\ Exited(run)
       /\ run.code = 0
       /\ run.steps = <<"prereq", "migrated">>
       /\ run.fs = run.fs0
  /\ (exists(run.fs0, UV_LOCK) /\ ~run.force) => run.fs = run.fs0

\* C2 witness: the no-op taken in a directory that a migration would change
C2_Witness ==
  /\ Exited(run)
  /\ TookNoOp(run)
  /\ ~run.force
  /\ exists(run.fs0, PYPROJECT_UV)
  /\ run.fs0[PYPROJECT_UV] # run.fs0[PYPROJECT]

\* C3: a run without --cleanup that starts with pyproject.toml and
\* poetry.lock present and exits with status 0 after the final report leaves
\* pyproject.poetry.toml with the starting content of pyproject.toml,
\* poetry.lock.bak with the starting content of poetry.lock, and
\* pyproject.toml with the content of pyproject.uv.toml.
C3_BackupsAndSwapAfterSuccess ==
  (/\ Exited(run) /\ run.code = 0 /\ Reported(run)
   /\ ~run.cleanup
   /\ exists(run.fs0, PYPROJECT) /\ exists(run.fs0, POETRY_LOCK)) =>
    /\ run.fs[PYPROJECT_BAK] = run.fs0[PYPROJECT]
    /\ run.fs[POETRY_BAK] = run.fs0[POETRY_LOCK]
    /\ run.fs[PYPROJECT] = run.fs[PYPROJECT_UV]
    /\ exists(run.fs, PYPROJECT_UV)

\* C3 witness: such a run in a directory holding stale backups that differ
\* from the originals, with a target configuration that differs too
C3_Witness ==
  /\ Exited(run) /\ run.code = 0 /\ Reported(run)
  /\ ~run.cleanup
  /\ exists(run.fs0, PYPROJECT) /\ exists(run.fs0, POETRY_LOCK)
  /\ exists(run.fs0, PYPROJECT_BAK) /\ exists(run.fs0, POETRY_BAK)
  /\ run.fs0[PYPROJECT_BAK] # run.fs0[PYPROJECT]
  /\ run.fs0[POETRY_BAK] # run.fs0[POETRY_LOCK]
  /\ run.fs0[PYPROJECT_UV] # run.fs0[PYPROJECT]

\* C4: a run with --cleanup that exits with status 0 after the final report
\* leaves none of pyproject.poetry.toml, poetry.lock.bak and .venv behind,
\* whatever the directory held at the start.
C4_CleanupRemovesAll ==
  (Exited(run) /\ run.code = 0 /\ Reported(run) /\ run.cleanup) =>
    /\ ~exists(run.fs, PYPROJECT_BAK)
    /\ ~exists(run.fs, POETRY_BAK)
    /\ ~exists(run.fs, VENV)

\* C4 witness: such a run in a directory that had a .venv directory and a
\* stale lock backup, and a poetry.lock to back up
C4_Witness ==
  /\ Exited(run) /\ run.code = 0 /\ Reported(run) /\ run.cleanup
  /\ is_dir(run.fs0, VENV)
  /\ exists(run.fs0, POETRY_BAK)
  /\ exists(run.fs0, POETRY_LOCK)

\* C5: once the swap step has run and found no pyproject.uv.toml, the
\* process has exited with status 1, pyproject.toml holds what it held at
\* the start, and no step after the swap was entered.
C5_MissingTargetConfigHalts ==
  ConfigAbsentAtSwap(run) =>
    /\ Exited(run)
    /\ run.code = 1
    /\ run.fs[PYPROJECT] = run.fs0[PYPROJECT]
    /\ run.steps = <<"prereq", "migrated", "backup", "swap">>

\* C5 witness: the swap step returned False (no fault raised) with --force
\* in a directory that has uv.lock
C5_Witness ==
  /\ ConfigAbsentAtSwap(run)
  /\ "pyproject.uv.toml not found" \in run.out
  /\ run.force
  /\ exists(run.fs0, UV_LOCK)

\* C6: once `uv sync --dev` has failed, the process has exited with status
\* 1; the backups of the originals that existed hold the originals'
\* starting content, pyproject.toml holds the content of pyproject.uv.toml,
\* and neither hook setup, verification, cleanup nor the final report ran.
C6_InstallFailureLeavesPartialMigration ==
  InstallFailed(run) =>
    /\ Exited(run)
    /\ run.code = 1
    /\ run.fs[PYPROJECT_BAK] = run.fs0[PYPROJECT]
    /\ exists(run.fs0, POETRY_LOCK) =>
         run.fs[POETRY_BAK] = run.fs0[POETRY_LOCK]
    /\ run.fs[PYPROJECT] = run.fs0[PYPROJECT_UV]
    /\ exists(run.fs, PYPROJECT)
    /\ run.steps = <<"prereq", "migrated", "backup", "swap", "install">>
    /\ ~Reported(run)

\* C6 witness: a failed install in a directory whose target configuration
\* differs from the original and whose poetry.lock had a stale backup
C6_Witness ==
  /\ InstallFailed(run)
  /\ run.fs0[PYPROJECT_UV] # run.fs0[PYPROJECT]
  /\ exists(run.fs0, POETRY_LOCK)
  /\ exists(run.fs0, POETRY_BAK)
  /\ run.fs0[POETRY_BAK] # run.fs0[POETRY_LOCK]

\* C7 as stated: whenever `uv sync --dev` has failed after the swap, the
\* process has exited with status 1 with the restore instructions printed.
C7_RestorePrintedOnInstallFailure ==
  InstallFailed(run) =>
    /\ Exited(run)
    /\ run.code = 1
    /\ RestorePrinted(run)

\* the two runs are at the same place with the same history and the same
\* directory, uv.lock aside
SameOutcome(r, t) ==
  /\ r.pc = t.pc
  /\ r.steps = t.steps
  /\ r.code = t.code
  /\ r.out = t.out
  /\ r.cmd = t.cmd
  /\ r.raised = t.raised
  /\ \A p \in Paths \ {UV_LOCK} : r.fs[p] = t.fs[p]

\* C8: in a run with --force whose prerequisite check passed, the
\* already-migrated exit is never taken, the backup step is what follows the
\* already-migrated check, and at every point the run is in
\* step with the run from the same directory without uv.lock on the same
\* inputs: same steps, same output, same files (uv.lock aside), same status.
C8_ForceIgnoresMarker ==
  (run.force /\ PrereqPassed(run)) =>
    /\ ~TookNoOp(run)
    /\ run.pc # "migrated" => (run.pc = "backup" \/ Entered(run, "backup"))
    /\ SameOutcome(run, twin)

\* C8 witness: a forced run in a directory with uv.lock that went through
\* to the final report
C8_Witness ==
  /\ run.force
  /\ exists(run.fs0, UV_LOCK)
  /\ ~exists(twin.fs0, UV_LOCK)
  /\ Exited(run)
  /\ Reported(run)
  /\ run.steps = <<"prereq", "migrated", "backup", "swap", "install", "hook",
                   "verify", "cleanup", "report">>

\* some hook-setup or verification command exited non-zero
AdvisoryStepFailed(r) ==
  \E c \in {PRE_COMMIT, PY_VERSION, IMPORT_CHECK, PYTEST_VERSION} :
    r.cmd[c] = "fail"

\* C9: an exited process has status 0 or 1; it is 0 exactly when the run
\* took the already-migrated no-op or printed the final report, and 1
\* exactly when a prerequisite failed, the swap found no pyproject.uv.toml,
\* the install failed, or an interrupt or an exception was raised in the
\* protected workflow; a failed hook setup or verification command in a run
\* with no fault leaves the status 0.
C9_ExitStatus ==
  Exited(run) =>
    /\ run.code \in {0, 1}
    /\ run.code = 0 <=> (TookNoOp(run) \/ Reported(run))
    /\ run.code = 1 <=> \/ PrereqFailed(run)
                        \/ ConfigAbsentAtSwap(run)
                        \/ InstallFailed(run)
                        \/ run.raised = "interrupt"
                        \/ run.raised = "exception"
    /\ (AdvisoryStepFailed(run) /\ run.raised = "none") => run.code = 0

\* C9 witness: a run that exited 0 although hook setup and the first
\* verification check failed
C9_Witness ==
  /\ Exited(run)
  /\ run.code = 0
  /\ run.cmd[PRE_COMMIT] = "fail"
  /\ run.cmd[PY_VERSION] = "fail"
  /\ Reported(run)

\* C10: once an exception has been raised in the protected workflow the
\* process has exited with status 1, the failure and the restore
\* instructions have been printed, the final report has not, and the last
\* step entered is the one that raised.
C10_ExceptionCaughtAtTopLevel ==
  run.raised = "exception" =>
    /\ Exited(run)
    /\ run.code = 1
    /\ "migration failed" \in run.out
    /\ RestorePrinted(run)
    /\ ~Reported(run)
    /\ Last(run.steps) \in {"backup", "swap", "install", "hook", "verify",
                            "cleanup", "report"}

\* C10 witness: an exception raised in the cleanup step of a run with
\* --cleanup after one backup had already been deleted
C10_Witness ==
  /\ run.raised = "exception"
  /\ Last(run.steps) = "cleanup"
  /\ run.cleanup
  /\ ~exists(run.fs, POETRY_BAK)
  /\ exists(run.fs, PYPROJECT_BAK)

\* C11 as stated: once a KeyboardInterrupt has been raised in the protected
\* workflow the process has exited with status 1, the cancellation has been
\* reported, and the hint to restore from the backup files has been printed.
C11_InterruptReportedWithHint ==
  run.raised = "interrupt" =>
    /\ Exited(run)
    /\ run.code = 1
    /\ "migration cancelled by user" \in run.out
    /\ RestorePrinted(run)

\* the backups hold what the originals hold now
BackedUp(fs) ==
  /\ exists(fs, PYPROJECT) => fs[PYPROJECT_BAK] = fs[PYPROJECT]
  /\ exists(fs, POETRY_LOCK) => fs[POETRY_BAK] = fs[POETRY_LOCK]

\* C12: pyproject.toml changes only in the configuration-swap step, which is
\* entered only with the backup step completed; at that moment
\* pyproject.poetry.toml holds what pyproject.toml holds just before the
\* overwrite (it existed at the start, the prerequisite check passed), and
\* poetry.lock.bak holds what poetry.lock holds if poetry.lock exists.
C12_BackupBeforeOverwrite ==
  /\ run.fs[PYPROJECT] # run.fs0[PYPROJECT] => Entered(run, "swap")
  /\ (run.pc = "swap" \/ Entered(run, "swap")) =>
       /\ Entered(run, "backup")
       /\ "backups created" \in run.out
       /\ exists(run.fs0, PYPROJECT)
  /\ run.pc = "swap" =>
       /\ run.fs[PYPROJECT] = run.fs0[PYPROJECT]
       /\ exists(run.fs, PYPROJECT_BAK)
       /\ BackedUp(run.fs)

\* C12 witness: pyproject.toml overwritten with another content, over stale
\* backups that differed from both originals
C12_Witness ==
  /\ Entered(run, "swap")
  /\ run.fs[PYPROJECT] # run.fs0[PYPROJECT]
  /\ run.fs[PYPROJECT] = run.fs0[PYPROJECT_UV]
  /\ run.fs[PYPROJECT_BAK] = run.fs0[PYPROJECT]
  /\ exists(run.fs0, POETRY_LOCK)
  /\ exists(run.fs0, PYPROJECT_BAK) /\ exists(run.fs0, POETRY_BAK)
  /\ run.fs0[PYPROJECT_BAK] # run.fs0[PYPROJECT]
  /\ run.fs0[POETRY_BAK] # run.fs0[POETRY_LOCK]

VerifyCommands == {PY_VERSION, IMPORT_CHECK, PYTEST_VERSION}

\* C13: in a run whose install succeeded and in which no fault was raised,
\* the process has exited only after the cleanup step and the final report,
\* with status 0, whatever the three verification commands returned; with
\* --cleanup the backups are gone.
C13_VerificationAdvisory ==
  (Exited(run) /\ run.cmd[UV_SYNC] = "ok" /\ run.raised = "none") =>
    /\ Entered(run, "verify")
    /\ Entered(run, "cleanup")
    /\ Entered(run, "report")
    /\ Reported(run)
    /\ run.code = 0
    /\ run.cleanup => (~exists(run.fs, PYPROJECT_BAK)
                         /\ ~exists(run.fs, POETRY_BAK))

\* C13 witness: a run with --cleanup whose first verification check failed
\* and which exited 0 after the report
C13_Witness ==
  /\ Exited(run)
  /\ run.cmd[UV_SYNC] = "ok"
  /\ run.cmd[PY_VERSION] = "fail"
  /\ "installation may have issues" \in run.out
  /\ run.cleanup
  /\ exists(run.fs0, POETRY_LOCK)
  /\ run.code = 0

\* the verification step is over and raised nothing
Verified(r) ==
  /\ Entered(r, "verify")
  /\ r.pc # "verify"
  /\ ~(r.raised # "none" /\ Last(r.steps) = "verify")

\* C14 as stated: a failed import check does not stop the verification
\* step: the pytest check still runs and the step does not report failure.
C14_Original ==
  (Verified(run) /\ run.cmd[IMPORT_CHECK] = "fail") =>
    /\ run.cmd[PYTEST_VERSION] # "notrun"
    /\ "installation may have issues" \notin run.out

\* C14 amended: the checks run in order and the first two are halting: a
\* failed Python version check or a failed import check stops the step (no
\* later check runs) and makes it report failure; only a failed pytest
\* version check is merely warned about, and the step then reports success.
C14_FirstTwoChecksHalt ==
  Verified(run) =>
    /\ run.cmd[PY_VERSION] # "notrun"
    /\ run.cmd[PY_VERSION] = "fail" =>
         /\ run.cmd[IMPORT_CHECK] = "notrun"
         /\ run.cmd[PYTEST_VERSION] = "notrun"
         /\ "installation may have issues" \in run.out
    /\ run.cmd[PY_VERSION] = "ok" => run.cmd[IMPORT_CHECK] # "notrun"
    /\ run.cmd[IMPORT_CHECK] = "fail" =>
         /\ run.cmd[PYTEST_VERSION] = "notrun"
         /\ "installation may have issues" \in run.out
    /\ run.cmd[IMPORT_CHECK] = "ok" =>
         /\ run.cmd[PYTEST_VERSION] # "notrun"
         /\ "installation verified" \in run.out
         /\ "installation may have issues" \notin run.out
    /\ run.cmd[PYTEST_VERSION] = "fail" => "pytest not available" \in run.out

\* C14 witness: a verification whose pytest check alone failed
C14_Witness ==
  /\ Verified(run)
  /\ run.cmd[PYTEST_VERSION] = "fail"
  /\ run.cmd[IMPORT_CHECK] = "ok"
  /\ "installation verified" \in run.out

\* the backup step is over
BackupOver(r) == Entered(r, "backup") /\ r.pc # "backup"

\* C16 as stated: whatever happens to the copies, short of an interrupt, the
\* backup step completes and the workflow goes on to the configuration swap.
C16_Original ==
  (BackupOver(run) /\ run.raised # "interrupt") =>
    (run.pc = "swap" \/ Entered(run, "swap"))

\* C16 amended: the backup step has no error handling of its own.  An
\* absent original is skipped silently and the workflow goes on to the swap;
\* a copy that fails raises, the step does not complete, the exception is
\* caught at the top level, which prints the restore instructions and exits
\* with status 1, and the swap is never entered: pyproject.toml is as it was.
C16_BackupFailureHalts ==
  BackupOver(run) =>
    \/ /\ "backups created" \in run.out
       /\ run.pc = "swap" \/ Entered(run, "swap")
    \/ /\ run.raised # "none"
       /\ Exited(run)
       /\ run.code = 1
       /\ Last(run.steps) = "backup"
       /\ run.fs[PYPROJECT] = run.fs0[PYPROJECT]
       /\ run.raised = "exception" => RestorePrinted(run)

\* C16 witness: the copy of poetry.lock raised and left a partial backup
\* behind, after pyproject.toml had been backed up
C16_Witness ==
  /\ BackupOver(run)
  /\ run.raised = "exception"
  /\ Last(run.steps) = "backup"
  /\ run.fs[POETRY_BAK] = TornEntry
  /\ run.fs[PYPROJECT_BAK] = run.fs0[PYPROJECT]

FullOrder == <<"prereq", "migrated", "backup", "swap", "install", "hook",
               "verify", "cleanup", "report">>

\* C17: the steps entered are an initial segment of the fixed order, each
\* once; a run that has not exited is at the step that follows the last one
\* entered; a step past a fatal gate was entered only with the gate passed
\* (prerequisites, no no-op, target configuration present, install
\* succeeded); and a failed gate or the no-op is the last step of the run.
C17_FixedOrderAndGates ==
  LET n == Len(run.steps)
  IN /\ n <= Len(FullOrder)
     /\ \A i \in 1 .. n : run.steps[i] = FullOrder[i]
     /\ ~Exited(run) => (n < Len(FullOrder) /\ run.pc = FullOrder[n + 1])
     /\ n >= 2 => PrereqPassed(run)
     /\ n >= 3 => (~TookNoOp(run) /\ (run.force \/ ~exists(run.fs0, UV_LOCK)))
     /\ n >= 5 => exists(run.fs, PYPROJECT_UV)
     /\ n >= 6 => run.cmd[UV_SYNC] = "ok"
     /\ PrereqFailed(run) => (Exited(run) /\ n = 1)
     /\ TookNoOp(run) => (Exited(run) /\ n = 2)
     /\ ConfigAbsentAtSwap(run) => (Exited(run) /\ n = 4)
     /\ InstallFailed(run) => (Exited(run) /\ n = 5)

\* C17 witness: a run that went through all nine steps
C17_Witness ==
  /\ Exited(run)
  /\ run.steps = FullOrder
  /\ run.cmd[UV_SYNC] = "ok"
  /\ Reported(run)

\* C18 as stated: a run without --cleanup, and a run that exits with status
\* 1 whatever its flags, has deleted nothing: every entry present at the
\* start is present at exit, and so are the backups the backup step wrote.
C18_NoDeletionUnlessCleanSuccess ==
  (Exited(run) /\ (~run.cleanup \/ run.code = 1)) =>
    /\ \A p \in Paths : exists(run.fs0, p) => exists(run.fs, p)
    /\ "backups created" \in run.out => exists(run.fs, PYPROJECT_BAK)

\* C20: at every point of a run pyproject.uv.toml, poetry.lock and uv.lock
\* are as they were at the start; pyproject.toml is never deleted and never
\* created; .venv is never written, only removed; and a backup or .venv is
\* removed only in the cleanup step of a run with --cleanup.
C20_FrameOfFileOperations ==
  /\ \A p \in {PYPROJECT_UV, POETRY_LOCK, UV_LOCK} : run.fs[p] = run.fs0[p]
  /\ exists(run.fs, PYPROJECT) <=> exists(run.fs0, PYPROJECT)
  /\ run.fs[VENV] \in {run.fs0[VENV], AbsentEntry}
  /\ \A p \in {PYPROJECT_BAK, POETRY_BAK, VENV} :
       (exists(run.fs0, p) /\ ~exists(run.fs, p)) =>
         (run.cleanup /\ Entered(run, "cleanup"))
  /\ \A p \in {PYPROJECT, PYPROJECT_BAK, POETRY_BAK} :
       run.fs[p] # run.fs0[p] => Entered(run, "backup")

\* C20 witness: a forced run with --cleanup that wrote pyproject.toml and
\* removed both backups and the .venv directory, in a directory holding
\* poetry.lock and uv.lock
C20_Witness ==
  /\ Exited(run) /\ Reported(run) /\ run.cleanup
  /\ run.fs[PYPROJECT] # run.fs0[PYPROJECT]
  /\ is_dir(run.fs0, VENV) /\ ~exists(run.fs, VENV)
  /\ exists(run.fs0, PYPROJECT_BAK) /\ exists(run.fs0, POETRY_BAK)
  /\ exists(run.fs, POETRY_LOCK) /\ exists(run.fs, UV_LOCK)

AdvisoryCommands == {POETRY_VERSION, PRE_COMMIT}

\* what the two advisory commands make the tool print
AdvisoryMessages == {"poetry found", "poetry not found",
                     "pre-commit hooks installed",
                     "failed to install pre-commit hooks"}

\* the two runs agree on everything but the advisory outcomes themselves
\* and the lines printed about them
SameButAdvisory(r, t) ==
  /\ r.pc = t.pc
  /\ r.steps = t.steps
  /\ r.code = t.code
  /\ r.raised = t.raised
  /\ r.fs = t.fs
  /\ r.out \ AdvisoryMessages = t.out \ AdvisoryMessages
  /\ \A c \in Commands \ AdvisoryCommands : r.cmd[c] = t.cmd[c]

\* C15: at every point, the run and each run from the same directory on the
\* same inputs but with the outcome of `poetry --version`, of `uv run
\* pre-commit install`, or of both changed are at the same step with the
\* same steps entered, the same files, the same exit status and the same
\* output, the lines about the two commands aside.
C15_AdvisoryOutcomesDoNotInfluence ==
  \A w \in Variations : SameButAdvisory(run, peers[w])

\* C15 witness: a run that went to the final report with both advisory
\* commands failing while they succeeded in a peer run
C15_Witness ==
  /\ Exited(run) /\ Reported(run)
  /\ run.cmd[POETRY_VERSION] = "fail"
  /\ run.cmd[PRE_COMMIT] = "fail"
  /\ peers["both"].cmd[POETRY_VERSION] = "ok"
  /\ peers["both"].cmd[PRE_COMMIT] = "ok"
  /\ peers["hook"].cmd[POETRY_VERSION] = "fail"
  /\ peers["hook"].cmd[PRE_COMMIT] = "ok"
  /\ Exited(peers["both"]) /\ Reported(peers["both"])

\* C19 as stated, for runs none of which met a fault: across the runs in
\* one directory, once the backup step has written pyproject.poetry.toml,
\* the file holds what pyproject.toml held before the first run.
C19_BackupKeepsOriginal ==
  (/\ run.faultfree /\ run.raised = "none"
   /\ exists(run.origin, PYPROJECT)
   /\ exists(run.fs, PYPROJECT_BAK)) =>
    run.fs[PYPROJECT_BAK] = run.origin[PYPROJECT]

====
